---- MODULE Spec2Model ----
(***************************************************************************)
(* A model of the per-frame simulation of Bevy-Steering-Evolution:         *)
(* the kinematic integrator (src/src/movement.rs), the steering agent      *)
(* controller (src/src/steering_agent.rs) and the food population engine   *)
(* (src/src/food.rs), as they are registered in Bevy's Update schedule.    *)
(*                                                                         *)
(* Scheduling.  add_systems(Update, (a, b, c)) states no order between a,  *)
(* b and c; only .chain() does.  The schedule therefore is any             *)
(* interleaving of the systems that respects the chains                    *)
(*   follow_mouse -> wander                           (steering_agent.rs)  *)
(*   update_velocity -> apply_damping -> clamp_velocity -> update_position *)
(*                                                    (movement.rs)        *)
(* and the three food systems are unordered (food.rs).  Every system runs  *)
(* once per frame, to completion (systems that write the same component    *)
(* never overlap).  Commands (spawns) are applied when the schedule ends.  *)
(*                                                                         *)
(* Numbers.  f32 values are fixed-point integers (one model unit = 1.0);   *)
(* the frame time and the duplication chance are rationals [n, d].  A      *)
(* length is rounded up and a quotient towards zero, so a normalised or    *)
(* clamped vector never exceeds its bound.  A Vec2 is [x, y, nan]: glam's  *)
(* is_nan() is "some component is NaN", and every branch of the source     *)
(* that reads a vector with a NaN component depends on that fact alone, so *)
(* a NaN vector is kept in the canonical form NaNVec.                      *)
(*                                                                         *)
(* Orientation (update_rotation) and exit_on_esc touch no state that the   *)
(* other systems read and are left out.                                    *)
(***************************************************************************)
EXTENDS Integers, Sequences, FiniteSets, TLC

VARIABLES
    food,      \* the live food entities, in query iteration order
    pending,   \* food spawned through Commands, not yet applied to the world
    agents,    \* the live steering agents, in query iteration order
    order,     \* the systems that have run in the current frame, in run order
    frame,     \* number of the current frame (1 = first Update)
    dt,        \* time.delta_secs() of the current frame, a rational [n, d]
    cursor,    \* window.cursor_position() mapped to the world, or NoCursor
    trials,    \* indices of the food entities that drew random_bool this frame
    panicked   \* TRUE once a system has panicked (the app has aborted)

vars == <<food, pending, agents, order, frame, dt, cursor, trials, panicked>>

-----------------------------------------------------------------------------
(* Bounds of the model *)

MaxFrames == 2
MaxFood == 4

-----------------------------------------------------------------------------
(* Vec2 and f32 arithmetic *)

Vec(x, y) == [x |-> x, y |-> y, nan |-> FALSE]
NaNVec == [x |-> 0, y |-> 0, nan |-> TRUE]
ZERO == Vec(0, 0)

is_nan(v) == v.nan

Rat(n, d) == [n |-> n, d |-> d]

\* integer quotient rounded towards zero
TruncDiv(a, b) == IF a >= 0 THEN a \div b ELSE -((-a) \div b)

Max(a, b) == IF a >= b THEN a ELSE b

Range(seq) == {seq[k] : k \in 1..Len(seq)}

RECURSIVE SqrtSearch(_, _, _)
SqrtSearch(n, lo, hi) ==
    IF lo >= hi THEN lo
    ELSE LET mid == (lo + hi) \div 2
         IN IF mid * mid >= n THEN SqrtSearch(n, lo, mid)
                              ELSE SqrtSearch(n, mid + 1, hi)

\* the least k with k * k >= n
CeilSqrt(n) == SqrtSearch(n, 0, 46340)

VAdd(a, b) == IF a.nan \/ b.nan THEN NaNVec ELSE Vec(a.x + b.x, a.y + b.y)
VSub(a, b) == IF a.nan \/ b.nan THEN NaNVec ELSE Vec(a.x - b.x, a.y - b.y)

\* v * (n / d)
VScale(v, n, d) ==
    IF v.nan THEN NaNVec ELSE Vec(TruncDiv(v.x * n, d), TruncDiv(v.y * n, d))

\* only read for a vector that is not NaN
length_squared(v) == v.x * v.x + v.y * v.y
length(v) == CeilSqrt(length_squared(v))
distance_squared(a, b) == length_squared(VSub(b, a))

\* velocity.0.length_squared() < 1e-5 (false for NaN)
BelowSnap(v) ==
    /\ ~v.nan
    /\ length_squared(v) < 1
    /\ length_squared(v) * 100000 < 1

-----------------------------------------------------------------------------
(* Food: parameters, spawning, the three food systems *)

\* Food { .. } as spawn_initial_food builds it
base_food ==
    [ nutritional_value  |-> 4,
      duplication_chance |-> Rat(1, 10),
      spawn_velocity_min |-> 5,
      spawn_velocity_max |-> 100,
      cohesion_radius    |-> 64,
      cohesion_force     |-> 4,
      seperation_radius  |-> 32,
      seperation_force   |-> 256,
      neighbour_radius   |-> 64,
      max_neighbours     |-> 16 ]

\* Food is a public component with public fields: the parameter sets below
\* are further values of it.  The neighbour cap is small enough to be met by
\* a few entities; still_food takes no part in cohesion or separation.
still_food == [base_food EXCEPT !.cohesion_radius = 0, !.seperation_radius = 0,
                                !.neighbour_radius = 8]
crowd_food == [still_food EXCEPT !.max_neighbours = 2]
trio_food  == [still_food EXCEPT !.max_neighbours = 3, !.nutritional_value = 5]
eager_food == [still_food EXCEPT !.max_neighbours = 3,
                                 !.duplication_chance = Rat(3, 2)]
pair_food  == [base_food EXCEPT !.seperation_radius = 0, !.max_neighbours = 2,
                                !.spawn_velocity_min = 0, !.spawn_velocity_max = 1]
short_food == [pair_food EXCEPT !.cohesion_radius = 8, !.cohesion_force = 2,
                                !.seperation_radius = 16, !.nutritional_value = 3]

Particle(pos, vel, f, born, parent) ==
    [pos |-> pos, vel |-> vel, food |-> f, born |-> born, parent |-> parent]

\* What the random source returns for one food entity of a duplication pass:
\* the Bernoulli sample, then the force and the angle of spawn_food.
RngOutcomes ==
    { [hit |-> FALSE, force |-> "low", angle |-> "0"],
      [hit |-> TRUE, force |-> "high", angle |-> "TAU/4"] }

\* rng.random_range(food.spawn_velocity_min..food.spawn_velocity_max)
initial_force(f, pick) ==
    IF pick = "low" THEN f.spawn_velocity_min ELSE f.spawn_velocity_max - 1

\* Vec2::new(angle.cos() * force, angle.sin() * force)
initial_velocity(f, u) ==
    LET force == initial_force(f, u.force)
    IN CASE u.angle = "0"     -> Vec(force, 0)
         [] u.angle = "TAU/4" -> Vec(0, force)

\* commands.spawn(..) of every child of a pass: an entity joins the world
\* when the commands are applied, at the end of the schedule
SpawnNow(children) == [food |-> food \o children, pending |-> pending]
commands_spawn(children) == [food |-> food, pending |-> pending \o children]

\* spawn_food(food, position, ..): the entity it hands to commands.spawn
SpawnFromTemplate(f, position, u, parent) ==
    Particle(position, initial_velocity(base_food, u), base_food, frame, parent)
spawn_food(f, position, u, parent) ==
    Particle(position, initial_velocity(f, u), f, frame, parent)

count_nearby_food(position, radius) ==
    Cardinality({j \in 1..Len(food) :
        distance_squared(position, food[j].pos) < radius * radius})

\* rand's random_bool(p) panics unless 0 <= p <= 1
BernoulliPanics(p) == p.n < 0 \/ p.n > p.d
random_bool(p, u) ==
    IF p.n = 0 THEN FALSE ELSE IF p.n = p.d THEN TRUE ELSE u.hit

\* food.duplication_chance * time.delta_secs()
chance(f) == Rat(f.duplication_chance.n * dt.n, f.duplication_chance.d * dt.d)

\* One iteration of food_duplication's loop, for entity i, when the random
\* source returns rng[i]: "gated" (no draw), "panic", "spawn" or "miss".
DrawThenGate(i, rng) ==
    IF BernoulliPanics(chance(food[i].food)) THEN "panic"
    ELSE IF ~random_bool(chance(food[i].food), rng[i]) THEN "miss"
    ELSE IF count_nearby_food(food[i].pos, food[i].food.neighbour_radius)
                < food[i].food.max_neighbours THEN "spawn"
    ELSE "miss"
DuplicationStep(i, rng) ==
    IF count_nearby_food(food[i].pos, food[i].food.neighbour_radius)
            < food[i].food.max_neighbours
    THEN IF BernoulliPanics(chance(food[i].food)) THEN "panic"
         ELSE IF random_bool(chance(food[i].food), rng[i]) THEN "spawn"
         ELSE "miss"
    ELSE "gated"

\* The loop runs the entities in order and stops at the first panic.
Reached(i, rng) == \A j \in 1..(i - 1) : DuplicationStep(j, rng) # "panic"

RECURSIVE ChildrenFrom(_, _)
ChildrenFrom(i, rng) ==
    IF i > Len(food) \/ DuplicationStep(i, rng) = "panic" THEN <<>>
    ELSE (IF DuplicationStep(i, rng) = "spawn"
          THEN <<spawn_food(food[i].food, food[i].pos, rng[i], i)>>
          ELSE <<>>) \o ChildrenFrom(i + 1, rng)

\* velocity *= (1 - 2 dt).max(0), then the snap to zero
DampFood(v) ==
    LET damped == VScale(v, Max(dt.d - 2 * dt.n, 0), dt.d)
    IN IF BelowSnap(damped) THEN ZERO ELSE damped

\* iter_combinations_mut: the pairs <<i, j>>, i < j, in iteration order
RECURSIVE CombinationsFrom(_, _, _)
CombinationsFrom(i, j, n) ==
    IF i >= n THEN <<>>
    ELSE IF j > n THEN CombinationsFrom(i + 1, i + 2, n)
    ELSE <<(<<i, j>>)>> \o CombinationsFrom(i, j + 1, n)

OrderedPairs(n) ==
    CombinationsFrom(1, 2, n) \o
        [k \in 1..Len(CombinationsFrom(1, 2, n)) |->
            <<CombinationsFrom(1, 2, n)[k][2], CombinationsFrom(1, 2, n)[k][1]>>]
iter_combinations(n) == CombinationsFrom(1, 2, n)

\* One iteration of food_cohesion's while loop, on the pair (a, b): what it
\* adds to velocity_a
CohesionPair(a, b) ==
    LET delta == VSub(food[b].pos, food[a].pos)
        distance == length(delta)
        food_a == food[a].food
        attraction_force ==
            IF length_squared(delta) < food_a.cohesion_radius * food_a.cohesion_radius
            THEN VScale(delta, food_a.cohesion_force * dt.n, distance * dt.d)
            ELSE ZERO
        repulsion_force ==
            IF length_squared(delta) < food_a.seperation_radius * food_a.seperation_radius
            THEN VScale(delta, -food_a.seperation_force * dt.n,
                        distance * dt.d * Max(distance, 1))
            ELSE ZERO
    IN  \* distance < f32::EPSILON: EPSILON lies between 0 and one model unit
        IF length_squared(delta) < 1 THEN ZERO
        ELSE VAdd(attraction_force, repulsion_force)

\* What the pairs from the k-th on add to the velocity of entity a
RECURSIVE CohesionFrom(_, _, _)
CohesionFrom(a, pairs, k) ==
    IF k > Len(pairs) THEN ZERO
    ELSE IF pairs[k][1] = a
         THEN VAdd(CohesionPair(a, pairs[k][2]), CohesionFrom(a, pairs, k + 1))
         ELSE CohesionFrom(a, pairs, k + 1)

\* position += velocity * dt unless the velocity is NaN
Move(e) ==
    IF is_nan(e.vel) THEN e
    ELSE [e EXCEPT !.pos = VAdd(@, VScale(e.vel, dt.n, dt.d))]

-----------------------------------------------------------------------------
(* Steering agents: the steering library and the per-entity steps *)

\* v.clamp_length_max(max): a NaN length compares false and v is returned
clamp_length_max(v, max) ==
    IF ~v.nan /\ length_squared(v) > max * max
    THEN VScale(v, max, length(v))
    ELSE v

\* arrive(): the desired speed inside the slowing radius is
\* max_speed * (distance / slowing_radius), so the desired velocity
\* normalize(delta) * desired_speed is delta * max_speed / slowing_radius.
arrive(current_pos, current_velocity, target_pos, max_speed, max_force, slowing_radius) ==
    LET delta == VSub(target_pos, current_pos)
        desired_velocity ==
            IF length_squared(delta) < slowing_radius * slowing_radius
            THEN VScale(delta, max_speed, slowing_radius)
            ELSE VScale(delta, max_speed, length(delta))
    IN  \* distance < 0.1
        IF length_squared(delta) < 1 /\ length_squared(delta) * 100 < 1
        THEN ZERO
        ELSE clamp_length_max(VSub(desired_velocity, current_velocity), max_force)

Arrive(a, target) ==
    arrive(a.pos, a.vel, target, a.max_speed, a.max_force, a.slowing_radius)

\* SteeringAgentBundle::new(position, max_speed, max_force, slowing_radius,
\* damping) with a Wander target; follow: the entity carries FollowMouse.
\* nan_frame records the first frame in which update_velocity, running after
\* the producers, met a NaN velocity with a valid acceleration (0: none).
Agent(pos, vel, target, max_speed, max_force, slowing_radius, damping, follow) ==
    [ pos |-> pos, vel |-> vel, acc |-> ZERO, target |-> target,
      max_speed |-> max_speed, max_force |-> max_force,
      slowing_radius |-> slowing_radius, damping |-> damping,
      follow |-> follow, nan_frame |-> 0 ]

\* Wander::randomize(Vec2::ZERO, rng): sampled outcomes of the two draws
WanderTargets == {Vec(64, 0), Vec(0, -300)}

\* the loop body of follow_mouse, for an entity with FollowMouse
FollowMouseStep(a) ==
    IF a.follow THEN [a EXCEPT !.acc = VAdd(@, Arrive(a, cursor.at))] ELSE a

\* the loop body of wander; target is the outcome of randomize if it is called
WanderStep(a, target) ==
    LET wander_target ==
            IF distance_squared(a.pos, a.target) < 1 THEN target ELSE a.target
    IN [a EXCEPT !.target = wander_target,
                 !.acc = VAdd(@, Arrive(a, wander_target))]

\* the loop body of update_velocity
UpdateVelocityStep(a) ==
    LET added == IF ~is_nan(a.acc) THEN VAdd(a.vel, VScale(a.acc, dt.n, dt.d))
                 ELSE a.vel
    IN [a EXCEPT !.vel = IF BelowSnap(added) THEN ZERO ELSE added,
                 !.acc = ZERO,
                 !.nan_frame = IF /\ @ = 0
                                  /\ is_nan(a.vel) /\ ~is_nan(a.acc)
                                  /\ {"follow_mouse", "wander"} \subseteq Range(order)
                               THEN frame ELSE @]

\* the loop body of apply_damping: velocity *= (1 - damping * dt).max(0)
ApplyDampingStep(a) ==
    [a EXCEPT !.vel = VScale(@, Max(dt.d - a.damping * dt.n, 0), dt.d)]

\* the loop body of clamp_velocity
ClampSkipped(a) == a
ClampVelocityStep(a) ==
    [a EXCEPT !.vel = clamp_length_max(@, a.max_speed)]

-----------------------------------------------------------------------------
(* The Update schedule *)

FoodSystems ==
    {"food_duplication", "food_velocity_damping", "food_cohesion", "update_position"}
AgentSystems ==
    {"follow_mouse", "wander", "update_velocity", "apply_damping",
     "clamp_velocity", "update_position"}

\* The systems whose queries match an entity of the world; a system whose
\* queries match nothing changes nothing and is not scheduled in the model.
Active ==
    (IF food # <<>> THEN FoodSystems ELSE {})
        \cup (IF agents # <<>> THEN AgentSystems ELSE {})

\* .chain(): each system runs after the one listed before it
ChainedAfter(s) ==
    CASE s = "wander"          -> {"follow_mouse"}
      [] s = "apply_damping"   -> {"update_velocity"}
      [] s = "clamp_velocity"  -> {"apply_damping"}
      [] s = "update_position" -> {"clamp_velocity"}
      [] OTHER                 -> {}

Ready(s) ==
    /\ ~panicked
    /\ s \in Active
    /\ s \notin Range(order)
    /\ (ChainedAfter(s) \cap Active) \subseteq Range(order)

Ran(s) == Append(order, s)

\* Frame times and cursor positions the collaborators may supply
DtSet == {Rat(1, 4), Rat(1, 2), Rat(1, 1)}
NoCursor == [some |-> FALSE, at |-> ZERO]
Cursors == {NoCursor, [some |-> TRUE, at |-> Vec(30, 40)]}

-----------------------------------------------------------------------------
(* Food systems as actions *)

food_duplication ==
    /\ Ready("food_duplication")
    /\ \E rng \in [1..Len(food) -> RngOutcomes] :
          LET world == commands_spawn(ChildrenFrom(1, rng))
          IN  /\ Len(world.food) + Len(world.pending) <= MaxFood
              /\ food' = world.food
              /\ pending' = world.pending
              /\ trials' = {i \in 1..Len(food) :
                               Reached(i, rng) /\ DuplicationStep(i, rng) # "gated"}
              /\ panicked' = \E i \in 1..Len(food) : DuplicationStep(i, rng) = "panic"
              /\ order' = IF panicked' THEN order ELSE Ran("food_duplication")
    /\ UNCHANGED <<agents, frame, dt, cursor>>

food_velocity_damping ==
    /\ Ready("food_velocity_damping")
    /\ food' = [i \in 1..Len(food) |-> [food[i] EXCEPT !.vel = DampFood(@)]]
    /\ order' = Ran("food_velocity_damping")
    /\ UNCHANGED <<pending, agents, frame, dt, cursor, trials, panicked>>

food_cohesion ==
    /\ Ready("food_cohesion")
    /\ food' = [a \in 1..Len(food) |->
                  [food[a] EXCEPT !.vel =
                      VAdd(@, CohesionFrom(a, iter_combinations(Len(food)), 1))]]
    /\ order' = Ran("food_cohesion")
    /\ UNCHANGED <<pending, agents, frame, dt, cursor, trials, panicked>>

update_position ==
    /\ Ready("update_position")
    /\ food' = [i \in 1..Len(food) |-> Move(food[i])]
    /\ agents' = [i \in 1..Len(agents) |-> Move(agents[i])]
    /\ order' = Ran("update_position")
    /\ UNCHANGED <<pending, frame, dt, cursor, trials, panicked>>

\* The schedule ends: the queued commands are applied, and the next frame
\* starts with a new frame time and cursor position.
EndFrame ==
    /\ ~panicked
    /\ Active \subseteq Range(order)
    /\ frame < MaxFrames
    /\ food' = food \o pending
    /\ pending' = <<>>
    /\ order' = <<>>
    /\ frame' = frame + 1
    /\ dt' \in DtSet
    /\ cursor' \in Cursors
    /\ trials' = {}
    /\ UNCHANGED <<agents, panicked>>

\* Food populations at a frame boundary (spawn_initial_food draws the
\* positions at random; food_velocity_damping brings a velocity to zero)
InitialFood ==
    { <<Particle(Vec(0, 0), ZERO, pair_food, 0, 0),
        Particle(Vec(10, 0), ZERO, short_food, 0, 0)>>,
      <<Particle(Vec(0, 0), ZERO, short_food, 0, 0),
        Particle(Vec(10, 0), ZERO, pair_food, 0, 0)>>,
      <<Particle(Vec(0, 0), ZERO, pair_food, 0, 0),
        Particle(Vec(3, 0), ZERO, pair_food, 0, 0)>>,
      <<Particle(Vec(0, 0), ZERO, crowd_food, 0, 0),
        Particle(Vec(3, 4), ZERO, trio_food, 0, 0)>>,
      <<Particle(Vec(0, 0), Vec(5, 0), eager_food, 0, 0)>> }

InitFood ==
    /\ food \in InitialFood
    /\ pending = <<>>
    /\ agents = <<>>
    /\ order = <<>>
    /\ frame = 1
    /\ dt \in DtSet
    /\ cursor = NoCursor
    /\ trials = {}
    /\ panicked = FALSE

NextFood ==
    \/ food_duplication
    \/ food_velocity_damping
    \/ food_cohesion
    \/ update_position
    \/ EndFrame

SpecFood == InitFood /\ [][NextFood]_vars

-----------------------------------------------------------------------------
(* Steering agent and integrator systems as actions *)

follow_mouse ==
    /\ Ready("follow_mouse")
    /\ agents' = IF cursor.some
                 THEN [i \in 1..Len(agents) |-> FollowMouseStep(agents[i])]
                 ELSE agents
    /\ order' = Ran("follow_mouse")
    /\ UNCHANGED <<food, pending, frame, dt, cursor, trials, panicked>>

wander ==
    /\ Ready("wander")
    /\ \E rng \in [1..Len(agents) -> WanderTargets] :
          agents' = [i \in 1..Len(agents) |-> WanderStep(agents[i], rng[i])]
    /\ order' = Ran("wander")
    /\ UNCHANGED <<food, pending, frame, dt, cursor, trials, panicked>>

update_velocity ==
    /\ Ready("update_velocity")
    /\ agents' = [i \in 1..Len(agents) |-> UpdateVelocityStep(agents[i])]
    /\ order' = Ran("update_velocity")
    /\ UNCHANGED <<food, pending, frame, dt, cursor, trials, panicked>>

apply_damping ==
    /\ Ready("apply_damping")
    /\ agents' = [i \in 1..Len(agents) |-> ApplyDampingStep(agents[i])]
    /\ order' = Ran("apply_damping")
    /\ UNCHANGED <<food, pending, frame, dt, cursor, trials, panicked>>

clamp_velocity ==
    /\ Ready("clamp_velocity")
    /\ agents' = [i \in 1..Len(agents) |-> ClampVelocityStep(agents[i])]
    /\ order' = Ran("clamp_velocity")
    /\ UNCHANGED <<food, pending, frame, dt, cursor, trials, panicked>>

\* Agents at a frame boundary: as spawn_initial_agents makes them (at the
\* origin, at rest), one that has reached its wander target, and one built
\* with other component values that also carries FollowMouse.
InitialAgents ==
    { <<Agent(ZERO, ZERO, Vec(64, 0), 400, 1000, 50, 1, FALSE)>>,
      <<Agent(Vec(64, 0), ZERO, Vec(64, 0), 400, 1000, 50, 1, FALSE),
        Agent(ZERO, ZERO, Vec(0, -300), 100, 1000, 50, 0, TRUE)>> }

InitAgent ==
    /\ agents \in InitialAgents
    /\ food = <<>>
    /\ pending = <<>>
    /\ order = <<>>
    /\ frame = 1
    /\ dt \in DtSet
    /\ cursor \in Cursors
    /\ trials = {}
    /\ panicked = FALSE

NextAgent ==
    \/ follow_mouse
    \/ wander
    \/ update_velocity
    \/ apply_damping
    \/ clamp_velocity
    \/ update_position
    \/ EndFrame

SpecAgent == InitAgent /\ [][NextAgent]_vars

\* The same agents with a velocity that holds a NaN component
InitNaN ==
    /\ agents \in {[i \in 1..Len(as) |-> [as[i] EXCEPT !.vel = NaNVec]] :
                      as \in InitialAgents}
    /\ food = <<>>
    /\ pending = <<>>
    /\ order = <<>>
    /\ frame = 1
    /\ dt \in DtSet
    /\ cursor \in Cursors
    /\ trials = {}
    /\ panicked = FALSE

SpecNaN == InitNaN /\ [][NextAgent]_vars

-----------------------------------------------------------------------------
(* Properties of the food population engine (checked under SpecFood) *)

\* the step in which system s runs to completion
Step(s) == s \notin Range(order) /\ order' = Ran(s)

\* the step in which food_duplication runs, to completion or into a panic
DuplicationPass ==
    /\ "food_duplication" \notin Range(order)
    /\ ~panicked
    /\ (order' = Ran("food_duplication") \/ panicked')

\* squared distance between food entities i and j
Dist2(i, j) ==
    (food[j].pos.x - food[i].pos.x) * (food[j].pos.x - food[i].pos.x)
        + (food[j].pos.y - food[i].pos.y) * (food[j].pos.y - food[i].pos.y)

\* the number of food entities, i included, strictly within i's neighbour radius
Neighbours(i) ==
    Cardinality({j \in 1..Len(food) :
        Dist2(i, j) < food[i].food.neighbour_radius * food[i].food.neighbour_radius})

Crowded(i) == Neighbours(i) >= food[i].food.max_neighbours

ChildrenOf(i, queue) == {k \in 1..Len(queue) : queue[k].parent = i}

\* the food systems among those that have run this frame, in run order
FoodOrder ==
    SelectSeq(order, LAMBDA s : s \in {"food_duplication", "food_velocity_damping",
                                       "food_cohesion"})

ListedFoodOrder == <<"food_duplication", "food_velocity_damping", "food_cohesion">>

\* C1: in a duplication pass, a food entity whose neighbour count (itself
\* included, squared distance strictly below the squared radius) has reached
\* its max_neighbours spawns no child, whatever the random source would
\* return, and no Bernoulli draw is made for it.
C1_GateBeforeDraw ==
    [][DuplicationPass =>
          \A i \in 1..Len(food) :
              Crowded(i) => i \notin trials' /\ ChildrenOf(i, pending') = {}]_vars

\* a pass has just run in which one entity was gated while another drew and
\* spawned
C1_Witness ==
    /\ order = <<"food_duplication">>
    /\ \E i \in 1..Len(food) : Crowded(i) /\ i \notin trials
    /\ \E j \in trials : ChildrenOf(j, pending) # {}

\* C4: in every frame the three food systems run in the order
\* food_duplication, food_velocity_damping, food_cohesion.
C4_FixedFoodOrder ==
    FoodOrder = SubSeq(ListedFoodOrder, 1, Len(FoodOrder))

\* C5: one pass of food_cohesion evaluates each unordered pair once, changes
\* only the velocity of the first member of a pair, from that member's own
\* radii and forces, and changes no position and no Food parameter; with
\* entities at (0,0) and (10,0), cohesion radius 64, force 4, separation
\* radius 0 and dt = 1 the first gains (4,0) and the second nothing.
C5_AsymmetricCohesion ==
    [][Step("food_cohesion") =>
          LET n == Len(food)
              pairs == iter_combinations(n)
              \* entity a is within its own cohesion or separation radius of a later one
              Pulled(a) ==
                  \E b \in (a + 1)..n :
                      /\ Dist2(a, b) > 0
                      /\ \/ Dist2(a, b) < food[a].food.cohesion_radius
                                              * food[a].food.cohesion_radius
                         \/ Dist2(a, b) < food[a].food.seperation_radius
                                              * food[a].food.seperation_radius
          IN  /\ Len(food') = n
              /\ \A a \in 1..n :
                    /\ food'[a].pos = food[a].pos
                    /\ food'[a].food = food[a].food
                    /\ ~Pulled(a) => food'[a].vel = food[a].vel
              /\ food'[n].vel = food[n].vel
              /\ \A a \in 1..n : \A b \in (a + 1)..n :
                    Cardinality({k \in 1..Len(pairs) :
                        pairs[k] = <<a, b>> \/ pairs[k] = <<b, a>>}) = 1
              /\ ( /\ n = 2
                   /\ food[1].pos = Vec(0, 0) /\ food[2].pos = Vec(10, 0)
                   /\ food[1].food.cohesion_radius = 64
                   /\ food[1].food.cohesion_force = 4
                   /\ food[1].food.seperation_radius = 0
                   /\ dt = Rat(1, 1) )
                 => /\ food'[1].vel = VAdd(food[1].vel, Vec(4, 0))
                    /\ food'[2].vel = food[2].vel]_vars

\* the scenario of the claim, right after food_cohesion ran first in a frame
C5_Witness ==
    /\ order = <<"food_cohesion">>
    /\ dt = Rat(1, 1)
    /\ Len(food) = 2
    /\ food[1].pos = Vec(0, 0) /\ food[2].pos = Vec(10, 0)
    /\ food[1].food.cohesion_radius = 64 /\ food[1].food.seperation_radius = 0
    /\ food[1].vel = Vec(4, 0)
    /\ food[2].vel = ZERO

\* C6: an entity spawned by food_duplication in frame n is in no query of
\* frame n: every entity the systems see was born in an earlier frame, the
\* queued children stay as they were spawned until the frame ends, and they
\* join the world, unchanged, for frame n + 1.
C6_SpawnedNextFrame ==
    [][ /\ \A i \in 1..Len(food') : food'[i].born < frame'
        /\ \A k \in 1..Len(pending') : pending'[k].born = frame'
        /\ order' # <<>> => SubSeq(pending', 1, Len(pending)) = pending
        /\ frame' = frame + 1 => food' = food \o pending ]_vars

\* a child is queued while the other three systems have run after duplication
C6_Witness ==
    /\ pending # <<>>
    /\ Len(order) = 4
    /\ order[1] = "food_duplication"

\* C7: for an entity that passes the neighbour gate, a chance
\* duplication_chance * dt above 1 is a certain success: the entity spawns
\* a child and the frame goes on; no frame time leads to a fatal error.
C7_CertainSuccess ==
    [][DuplicationPass =>
          /\ ~panicked'
          /\ \A i \in 1..Len(food) :
                (~Crowded(i) /\ food[i].food.duplication_chance.n * dt.n
                                   > food[i].food.duplication_chance.d * dt.d)
                    => ChildrenOf(i, pending') # {}]_vars

\* C10: the population never shrinks and at most doubles in a frame: no
\* entity is removed, every entity present at a duplication pass spawns at
\* most one child, at its own position of that moment and with a copy of its
\* Food parameters.
C10_Growth ==
    [][ /\ Len(food') >= Len(food)
        /\ Len(food') <= 2 * Len(food)
        /\ Len(food') + Len(pending') <= 2 * Len(food) \/ frame' = frame + 1
        /\ \A i \in 1..Len(food) :
              food'[i].born = food[i].born /\ food'[i].food = food[i].food
        /\ DuplicationPass =>
              /\ \A i \in 1..Len(food) : Cardinality(ChildrenOf(i, pending')) <= 1
              /\ \A k \in 1..Len(pending') :
                    /\ pending'[k].parent \in 1..Len(food)
                    /\ pending'[k].pos = food[pending'[k].parent].pos
                    /\ pending'[k].food = food[pending'[k].parent].food ]_vars

\* two entities of one cluster have both spawned in the same pass, although
\* the cluster then holds more entities than their max_neighbours
C10_Witness ==
    /\ order = <<"food_duplication">>
    /\ \E i, j \in 1..Len(food) :
          /\ i # j
          /\ ChildrenOf(i, pending) # {} /\ ChildrenOf(j, pending) # {}
          /\ Dist2(i, j) < food[i].food.neighbour_radius * food[i].food.neighbour_radius
          /\ Neighbours(i) + 2 > food[i].food.max_neighbours

\* the preconditions of C9 at a position update: two entities, no
\* separation, the first within its cohesion radius of the second, which is
\* at rest, in a frame whose food systems ran in the listed order
CohesionAlone ==
    /\ Step("update_position")
    /\ order = ListedFoodOrder
    /\ Len(food) = 2
    /\ food[1].food.seperation_radius = 0
    /\ food[2].food.seperation_radius = 0
    /\ Dist2(1, 2) > 0
    /\ Dist2(1, 2) < food[1].food.cohesion_radius * food[1].food.cohesion_radius
    /\ food[2].vel = ZERO

Dist2Next ==
    (food'[2].pos.x - food'[1].pos.x) * (food'[2].pos.x - food'[1].pos.x)
        + (food'[2].pos.y - food'[1].pos.y) * (food'[2].pos.y - food'[1].pos.y)

\* the displacement of the first entity in this position update
Displacement == VScale(food[1].vel, dt.n, dt.d)

\* C9 as claimed: with cohesion alone, every frame of damping, cohesion and
\* position update strictly decreases the distance between the two entities
\* while it is above 0, for any dt (a displacement below the resolution of
\* the model is not counted against the claim).
C9_AlwaysCloser ==
    [][(CohesionAlone /\ Displacement # ZERO) => Dist2Next < Dist2(1, 2)]_vars

-----------------------------------------------------------------------------
(* Properties of the integrator and the agents (SpecAgent, SpecNaN) *)

\* system s ran before system t in the current frame
RanBefore(s, t) ==
    \E i, j \in 1..Len(order) : i < j /\ order[i] = s /\ order[j] = t

Speed2(a) == a.vel.x * a.vel.x + a.vel.y * a.vel.y

\* C2: when update_position reads the velocity of an entity with a MaxSpeed,
\* clamp_velocity has run in that frame after update_velocity and
\* apply_damping, and the velocity's magnitude is at most the max speed.
C2_ClampedWhenMoved ==
    [][Step("update_position") =>
          /\ RanBefore("update_velocity", "apply_damping")
          /\ RanBefore("apply_damping", "clamp_velocity")
          /\ \A i \in 1..Len(agents) :
                /\ ~agents[i].vel.nan
                /\ Speed2(agents[i]) <= agents[i].max_speed * agents[i].max_speed
                /\ agents'[i].vel = agents[i].vel]_vars

\* an agent has been moved at exactly its max speed, by a velocity that two
\* producers had pushed above it
C2_Witness ==
    /\ "update_position" \in Range(order)
    /\ RanBefore("wander", "update_velocity")
    /\ \E i \in 1..Len(agents) :
          /\ agents[i].follow
          /\ agents[i].pos # ZERO
          /\ Speed2(agents[i]) = agents[i].max_speed * agents[i].max_speed

\* C3: in every frame follow_mouse and wander run before update_velocity,
\* so that what they write in a frame is consumed, and reset to zero, in
\* that same frame.
C3_ProducersFirst ==
    /\ "update_velocity" \in Range(order) =>
          /\ RanBefore("follow_mouse", "update_velocity")
          /\ RanBefore("wander", "update_velocity")
    /\ Active \subseteq Range(order) =>
          \A i \in 1..Len(agents) : agents[i].acc = ZERO

\* C8: a velocity that is NaN at the start of a frame in which a valid
\* acceleration is consumed is a valid vector again once the integrator
\* pipeline of the next frame (update_velocity, apply_damping,
\* clamp_velocity) has run.
C8_SelfCorrects ==
    \A i \in 1..Len(agents) :
        ( /\ agents[i].nan_frame > 0
          /\ frame = agents[i].nan_frame + 1
          /\ "clamp_velocity" \in Range(order) )
            => ~is_nan(agents[i].vel)

====
